---- MODULE Spec2Model ----
(***************************************************************************)
(* A model of the stock analysis pipeline of StockAnalysis:                *)
(*   stock_analysis.py  format_ticker, get_stock_dataframe, get_stock_data,*)
(*                      get_company_info, get_financial_metrics,           *)
(*                      predict_price, get_trend_strength,                 *)
(*                      get_recommendation                                 *)
(*   app.py             the /api/stock_data and /api/download_csv routes   *)
(*                                                                         *)
(* Text is a sequence of one-character strings.  A price is an integer     *)
(* number of mills (1/1000 of the currency unit), so that rounding to two  *)
(* decimals is an operation that changes values.  Real-valued quantities   *)
(* that the code compares (moving averages, RSI, percentages) are compared *)
(* by cross-multiplication, exactly.                                       *)
(***************************************************************************)
EXTENDS Integers, Sequences, FiniteSets, TLC

VARIABLES
    ticker,     \* the ticker text of the request (query parameter / argument)
    req,        \* "analyze" | "export" | "none" (a direct call of a function)
    pc,         \* position of the request in the call chain
    calls,      \* the interactions with the outside world so far, in order
    formatted,  \* format_ticker's result in the running function
    df,         \* closes of the frame get_stock_dataframe returned
    histn,      \* number of history fetches get_stock_dataframe has made
    data,       \* get_stock_data's result
    info,       \* get_company_info's result
    metrics,    \* get_financial_metrics' result
    rdf,        \* closes of the frame get_recommendation fetched
    snap,       \* the info mapping get_recommendation fetched
    trend,      \* get_trend_strength's result inside get_recommendation
    rec,        \* get_recommendation's result
    response,   \* the route's response
    pp          \* predict_price's loop state

vars == <<ticker, req, pc, calls, formatted, df, histn, data, info, metrics,
          rdf, snap, trend, rec, response, pp>>

-----------------------------------------------------------------------------
(* Arithmetic helpers *)

Abs(x) == IF x < 0 THEN -x ELSE x

Max(a, b) == IF a >= b THEN a ELSE b

Min(a, b) == IF a <= b THEN a ELSE b

\* floor(n / d) for d > 0
FloorDiv(n, d) == n \div d

\* n / d (d > 0) rounded to the nearest integer, ties to the even one
\* (Python's round and numpy's rint).
RoundDiv(n, d) ==
    LET q == FloorDiv(n, d)
        r == n - q * d
    IN  IF 2 * r < d THEN q
        ELSE IF 2 * r > d THEN q + 1
        ELSE IF q % 2 = 0 THEN q ELSE q + 1

\* round(x, 2) of a price of n/d mills: the result in mills (a multiple of 10)
Round2Q(n, d) == 10 * RoundDiv(n, 10 * d)

\* round(x, 2) of a price in mills
Round2(m) == Round2Q(m, 1)

\* round((n / d - 1) * 100, 2) in hundredths, d > 0; the quotient is split so
\* that the products stay small
PctChange(n, d) ==
    LET q == FloorDiv(n - d, d)
        r == (n - d) - q * d
    IN  10000 * q + RoundDiv(10000 * r, d)

-----------------------------------------------------------------------------
(* Text helpers: str.upper, str.strip, in, endswith, split, replace, isalpha *)

UpperLetters ==
    {"A", "B", "C", "D", "E", "F", "G", "H", "I", "J", "K", "L", "M", "N", "O", "P",
     "Q", "R", "S", "T", "U", "V", "W", "X", "Y", "Z"}

LowerLetters == {"a", "b", "c", "e", "n", "s", "t"}

UpperChar(c) ==
    CASE c = "a" -> "A"
      [] c = "b" -> "B"
      [] c = "c" -> "C"
      [] c = "t" -> "T"
      [] c = "n" -> "N"
      [] c = "s" -> "S"
      [] c = "e" -> "E"
      [] OTHER -> c

Upper(s) == [i \in 1..Len(s) |-> UpperChar(s[i])]

RECURSIVE LStrip(_)
LStrip(s) == IF s # <<>> /\ Head(s) = " " THEN LStrip(Tail(s)) ELSE s

RECURSIVE RStrip(_)
RStrip(s) ==
    IF s # <<>> /\ s[Len(s)] = " " THEN RStrip(SubSeq(s, 1, Len(s) - 1)) ELSE s

Strip(s) == RStrip(LStrip(s))

HasChar(s, c) == \E i \in 1..Len(s) : s[i] = c

StartsWith(s, p) == Len(s) >= Len(p) /\ SubSeq(s, 1, Len(p)) = p

EndsWith(s, p) == Len(s) >= Len(p) /\ SubSeq(s, Len(s) - Len(p) + 1, Len(s)) = p

\* p in s  (substring)
Contains(s, p) == \E i \in 1..(Len(s) - Len(p) + 1) : SubSeq(s, i, i + Len(p) - 1) = p

\* s.replace(p, q): every non-overlapping occurrence, left to right
RECURSIVE Replace(_, _, _)
Replace(s, p, q) ==
    IF s = <<>> THEN <<>>
    ELSE IF StartsWith(s, p) THEN q \o Replace(SubSeq(s, Len(p) + 1, Len(s)), p, q)
    ELSE <<Head(s)>> \o Replace(Tail(s), p, q)

\* s.split(c): the list of parts
RECURSIVE Split(_, _)
Split(s, c) ==
    IF ~HasChar(s, c) THEN <<s>>
    ELSE LET k == CHOOSE i \in 1..Len(s) : s[i] = c /\ \A j \in 1..(i - 1) : s[j] # c
         IN  <<SubSeq(s, 1, k - 1)>> \o Split(SubSeq(s, k + 1, Len(s)), c)

\* s.isalpha(): non-empty and every character a letter
IsAlpha(s) == s # <<>> /\ \A i \in 1..Len(s) : s[i] \in UpperLetters \cup LowerLetters

DashNSE == <<"-", "N", "S", "E">>
DashBSE == <<"-", "B", "S", "E">>
DotNS == <<".", "N", "S">>
DotBO == <<".", "B", "O">>

known_us_stocks ==
    { <<"A", "A", "P", "L">>, <<"M", "S", "F", "T">>, <<"G", "O", "O", "G", "L">>,
      <<"A", "M", "Z", "N">>, <<"M", "E", "T", "A">>, <<"T", "S", "L", "A">>,
      <<"N", "V", "D", "A">>, <<"N", "F", "L", "X">> }

-----------------------------------------------------------------------------
(* format_ticker *)

\* the -NSE / -BSE rewrite: the text it returns, or <<"?">> when it falls through
ExchangeRewrite(t) ==
    LET parts == Split(t, "-")
        base_ticker == parts[1]
        exchange == parts[2]
    IN  IF exchange = <<"N", "S", "E">> THEN base_ticker \o DotNS
        ELSE IF exchange = <<"B", "S", "E">> THEN base_ticker \o DotBO
        ELSE <<"?">>

format_ticker(raw) ==
    LET t == Strip(Upper(raw))
        us_stock_pattern == Len(t) <= 5 /\ IsAlpha(t)
        indian_stock_pattern == Len(t) > 5 /\ IsAlpha(t)
    IN  IF HasChar(t, ".") THEN t
        ELSE IF (EndsWith(t, DashNSE) \/ EndsWith(t, DashBSE))
                /\ ExchangeRewrite(t) # <<"?">> THEN ExchangeRewrite(t)
        ELSE IF t \in known_us_stocks \/ us_stock_pattern THEN t
        ELSE IF indian_stock_pattern /\ ~(EndsWith(t, DotNS) \/ EndsWith(t, DotBO))
             THEN t \o DotNS
        ELSE t

-----------------------------------------------------------------------------
(* Bar series: the Close column, a non-empty sequence of positive prices   *)
(* in mills.  A rational is a pair <<numerator, denominator>>, den > 0.    *)

\* c[lo] + ... + c[hi], by halving (the recursion stays shallow)
RECURSIVE SumRange(_, _, _)
SumRange(c, lo, hi) ==
    IF lo > hi THEN 0
    ELSE IF lo = hi THEN c[lo]
    ELSE LET mid == (lo + hi) \div 2
         IN  SumRange(c, lo, mid) + SumRange(c, mid + 1, hi)

\* df['Close'].rolling(window=w).mean().fillna(df['Close'].iloc[0]) at row i
SmaFilled(c, w, i) ==
    IF i >= w THEN <<SumRange(c, i - w + 1, i), w>> ELSE <<c[1], 1>>

QGt(a, b) == a[1] * b[2] > b[1] * a[2]
QLt(a, b) == a[1] * b[2] < b[1] * a[2]
QLe(a, b) == a[1] * b[2] <= b[1] * a[2]
QGe(a, b) == a[1] * b[2] >= b[1] * a[2]

\* df['Close'].diff().fillna(0) at row i
Delta(c, i) == IF i = 1 THEN 0 ELSE c[i] - c[i - 1]

RECURSIVE GainSum(_, _, _)
GainSum(c, lo, hi) ==
    IF lo > hi THEN 0 ELSE Max(Delta(c, hi), 0) + GainSum(c, lo, hi - 1)

RECURSIVE LossSum(_, _, _)
LossSum(c, lo, hi) ==
    IF lo > hi THEN 0 ELSE Max(-Delta(c, hi), 0) + LossSum(c, lo, hi - 1)

RsiWindow == 14
Sma20Window == 20
Sma50Window == 50
Sma200Window == 200

\* current_rsi as a rational.  With fewer than 14 rows the rolling means are
\* NaN: gain is filled with 0 and loss with 0.0001, so rs = 0 and rsi = 0.
\* With 14 rows or more, gain = G/14 and loss = L/14: 0/0 is NaN and the
\* fillna(50) makes rsi 50; G/0 is inf and rsi is 100; else 100*G/(G+L).
CurrentRsi(c) ==
    LET n == Len(c)
        G == GainSum(c, n - RsiWindow + 1, n)
        L == LossSum(c, n - RsiWindow + 1, n)
    IN  IF n < RsiWindow THEN <<0, 1>>
        ELSE IF G = 0 /\ L = 0 THEN <<50, 1>>
        ELSE <<100 * G, G + L>>

\* the number of rows i >= 2 whose return is positive / negative (closes > 0)
PositiveDays(c) == Cardinality({i \in 2..Len(c) : c[i] > c[i - 1]})
NegativeDays(c) == Cardinality({i \in 2..Len(c) : c[i] < c[i - 1]})

\* the if/elif chain on (above_sma20, above_sma50, above_sma200)
\* BaseTrend whose "Weak Uptrend" branch also asks for the price above SMA200
BaseTrendNarrowWeakUp(above_sma20, above_sma50, above_sma200) ==
    IF above_sma20 /\ above_sma50 /\ above_sma200
        THEN [trend |-> "Strong Uptrend", strength |-> 5]
    ELSE IF above_sma20 /\ above_sma50
        THEN [trend |-> "Uptrend", strength |-> 4]
    ELSE IF above_sma20 /\ above_sma200
        THEN [trend |-> "Weak Uptrend", strength |-> 3]
    ELSE IF ~above_sma20 /\ ~above_sma50 /\ ~above_sma200
        THEN [trend |-> "Strong Downtrend", strength |-> -5]
    ELSE IF ~above_sma20 /\ ~above_sma50
        THEN [trend |-> "Downtrend", strength |-> -4]
    ELSE IF ~above_sma20
        THEN [trend |-> "Weak Downtrend", strength |-> -3]
    ELSE [trend |-> "Sideways", strength |-> 0]

\* "Determine trend status": the if / elif chain of lines 397-418
BaseTrend(above_sma20, above_sma50, above_sma200) ==
    IF above_sma20 /\ above_sma50 /\ above_sma200
        THEN [trend |-> "Strong Uptrend", strength |-> 5]
    ELSE IF above_sma20 /\ above_sma50
        THEN [trend |-> "Uptrend", strength |-> 4]
    ELSE IF above_sma20
        THEN [trend |-> "Weak Uptrend", strength |-> 3]
    ELSE IF ~above_sma20 /\ ~above_sma50 /\ ~above_sma200
        THEN [trend |-> "Strong Downtrend", strength |-> -5]
    ELSE IF ~above_sma20 /\ ~above_sma50
        THEN [trend |-> "Downtrend", strength |-> -4]
    ELSE IF ~above_sma20
        THEN [trend |-> "Weak Downtrend", strength |-> -3]
    ELSE [trend |-> "Sideways", strength |-> 0]

\* "Adjust for crosses"
CrossAdjust(b, golden_cross, death_cross) ==
    IF golden_cross
        THEN [trend |-> "Golden Cross (Bullish Signal)", strength |-> b.strength + 1]
    ELSE IF death_cross
        THEN [trend |-> "Death Cross (Bearish Signal)", strength |-> b.strength - 1]
    ELSE b

\* RsiAdjust with the adjustment applied twice
RsiAdjustTwice(b, rsi) ==
    IF QGt(rsi, <<70, 1>>)
        THEN [trend |-> b.trend \o " (Overbought)", strength |-> b.strength - 2,
              overbought |-> TRUE, oversold |-> FALSE]
    ELSE IF QLt(rsi, <<30, 1>>)
        THEN [trend |-> b.trend \o " (Oversold)", strength |-> b.strength + 2,
              overbought |-> FALSE, oversold |-> TRUE]
    ELSE [trend |-> b.trend, strength |-> b.strength,
          overbought |-> FALSE, oversold |-> FALSE]

\* "Adjust for RSI"
RsiAdjust(b, rsi) ==
    IF QGt(rsi, <<70, 1>>)
        THEN [trend |-> b.trend \o " (Overbought)", strength |-> b.strength - 1,
              overbought |-> TRUE, oversold |-> FALSE]
    ELSE IF QLt(rsi, <<30, 1>>)
        THEN [trend |-> b.trend \o " (Oversold)", strength |-> b.strength + 1,
              overbought |-> FALSE, oversold |-> TRUE]
    ELSE [trend |-> b.trend, strength |-> b.strength,
          overbought |-> FALSE, oversold |-> FALSE]

\* get_trend_strength(df).  recent_returns and volatility (a mean of ratios
\* and a standard deviation, reported only) are not part of the record here;
\* momentum_ratio and rsi are in hundredths, as rounded to 2 decimals.
get_trend_strength(c) ==
    LET n == Len(c)
        current_rsi == CurrentRsi(c)
        current_price == <<c[n], 1>>
        s20 == SmaFilled(c, Sma20Window, n)
        s50 == SmaFilled(c, Sma50Window, n)
        s200 == SmaFilled(c, Sma200Window, n)
        above_sma20 == QGt(current_price, s20)
        above_sma50 == QGt(current_price, s50)
        above_sma200 == QGt(current_price, s200)
        p20 == SmaFilled(c, Sma20Window, n - 1)
        p50 == SmaFilled(c, Sma50Window, n - 1)
        golden_cross == n >= 2 /\ QGt(s20, s50) /\ QLe(p20, p50)
        death_cross == n >= 2 /\ QLt(s20, s50) /\ QGe(p20, p50)
        base == BaseTrend(above_sma20, above_sma50, above_sma200)
        adj == RsiAdjust(CrossAdjust(base, golden_cross, death_cross), current_rsi)
    IN  [trend |-> adj.trend,
         strength |-> adj.strength,
         base |-> base.strength,
         golden_cross |-> golden_cross,
         death_cross |-> death_cross,
         momentum_ratio |-> RoundDiv(100 * PositiveDays(c), Max(NegativeDays(c), 1)),
         rsi |-> RoundDiv(100 * current_rsi[1], current_rsi[2]),
         overbought |-> adj.overbought,
         oversold |-> adj.oversold]

-----------------------------------------------------------------------------
(* predict_price.  LinearRegression is a library: the fitted model is      *)
(* represented by the raw values model.predict returns along the           *)
(* projection, [kind, a, b] standing for raw(i) = a + b * i mills.  Ties   *)
(* of round(x, 2) depend on the binary representation of x; RoundDiv       *)
(* takes them to the even neighbour.                                       *)

RecentWindow == 90

\* the rows the model is trained on: df.iloc[-90:], then .iloc[len(df)//3:]
TrainingRows(c) ==
    LET n == Len(c)
        lo == IF n > RecentWindow THEN n - RecentWindow + 1 ELSE 1
        m == n - lo + 1
    IN  (lo + m \div 3) .. n

\* every training close is the same: least squares then yields coefficient 0
\* and intercept that close
FlatTraining(c) == \A i \in TrainingRows(c) : c[i] = c[Len(c)]

RawAt(model, i) == model.a + model.b * i

\* one pass of the loop body for day i: the price appended to future_prices
\* (lines 322-335), raw being model.predict's value
ClampedPrice(future_prices, raw) ==
    IF future_prices = <<>> THEN Round2(raw)
    ELSE LET prev_price == future_prices[Len(future_prices)]
             \* max_change = prev_price * 0.03 = 3 * prev_price / 100
         IN  IF 100 * Abs(raw - prev_price) > 3 * prev_price
                 THEN IF raw > prev_price
                          THEN Round2Q(100 * prev_price + 3 * prev_price, 100)
                          ELSE Round2Q(100 * prev_price - 3 * prev_price, 100)
                 ELSE Round2(raw)

\* the prices of predict_price(df, days) under a fitted model
RECURSIVE PredictFrom(_, _, _, _)
PredictFrom(model, future_prices, i, days) ==
    IF i > days THEN future_prices
    ELSE PredictFrom(model,
                     Append(future_prices, ClampedPrice(future_prices, RawAt(model, i))),
                     i + 1, days)

predict_price(model, days) ==
    LET prices == PredictFrom(model, <<>>, 1, days)
    IN  [dates |-> [i \in 1..days |-> i], prices |-> prices]

-----------------------------------------------------------------------------
(* get_recommendation: the scoring.  A field of the info mapping is        *)
(* [k |-> "missing" | "none" | "num" | "str", v |-> value]; a trailing P/E *)
(* is in hundredths, a target price in mills.                              *)

\* the +2/+1/-2/-1 ladder on x = (n / d - 1) * 100, d > 0
ChangeScore(n, d) ==
    IF 100 * n > 115 * d THEN 2
    ELSE IF 100 * n > 105 * d THEN 1
    ELSE IF 100 * n < 85 * d THEN -2
    ELSE IF 100 * n < 95 * d THEN -1
    ELSE 0

AnalystScore(key) ==
    IF key = "buy" \/ key = "strongBuy" THEN 1
    ELSE IF key = "sell" \/ key = "strongSell" THEN -1
    ELSE 0

\* info.get('targetMeanPrice', current_price) and the "if target_mean_price"
\* guard: the price the potential is computed on (0: no potential computed)
TargetPrice(f, current_price) ==
    IF f.k = "missing" THEN current_price
    ELSE IF f.k = "num" THEN f.v
    ELSE 0

TargetScore(f, current_price) ==
    IF TargetPrice(f, current_price) = 0 THEN 0
    ELSE ChangeScore(TargetPrice(f, current_price), current_price)

\* PeScore with the lower limit included
PeScoreInclusive(f) ==
    IF f.k # "num" \/ f.v = 0 THEN 0
    ELSE IF 500 <= f.v /\ f.v < 2500 THEN 1
    ELSE IF f.v > 5000 THEN -1
    ELSE 0

\* info.get('trailingPE', 0), in hundredths; "pe_ratio and ..." is falsy for
\* 0 and None
PeScore(f) ==
    IF f.k # "num" \/ f.v = 0 THEN 0
    ELSE IF 500 < f.v /\ f.v < 2500 THEN 1
    ELSE IF f.v > 5000 THEN -1
    ELSE 0

\* a text where a number is expected makes the arithmetic or the comparison
\* raise TypeError
ScoringRaises(s) == s.targetMeanPrice.k = "str" \/ s.trailingPE.k = "str"

\* Category with the thresholds excluded
CategoryStrict(score) ==
    IF score > 5 THEN "Strong Buy"
    ELSE IF score > 3 THEN "Buy"
    ELSE IF score > 1 THEN "Moderate Buy"
    ELSE IF score > -1 THEN "Hold"
    ELSE IF score > -3 THEN "Moderate Sell"
    ELSE IF score > -5 THEN "Sell"
    ELSE "Strong Sell"

Category(score) ==
    IF score >= 5 THEN "Strong Buy"
    ELSE IF score >= 3 THEN "Buy"
    ELSE IF score >= 1 THEN "Moderate Buy"
    ELSE IF score >= -1 THEN "Hold"
    ELSE IF score >= -3 THEN "Moderate Sell"
    ELSE IF score >= -5 THEN "Sell"
    ELSE "Strong Sell"

Explanation(recommendation) ==
    CASE recommendation = "Strong Buy" ->
           "The stock shows strong positive trends, good analyst ratings, and favorable valuation metrics."
      [] recommendation = "Buy" ->
           "The stock shows positive trends and potential for growth based on technical and fundamental factors."
      [] recommendation = "Moderate Buy" ->
           "The stock shows some positive indicators, but with limited conviction."
      [] recommendation = "Hold" ->
           "The stock shows mixed signals with no clear trend direction."
      [] recommendation = "Moderate Sell" ->
           "The stock shows some negative indicators that suggest caution."
      [] recommendation = "Sell" ->
           "The stock shows negative trends and unfavorable metrics."
      [] OTHER ->
           "The stock shows strong negative trends, poor analyst ratings, and concerning valuation metrics."

AnalystKey(f) == IF f.k = "missing" THEN "N/A" ELSE f.v

\* the score accumulated at lines 492-527
Score(trend_data, predicted_price, current_price, s) ==
    trend_data.strength
    + ChangeScore(predicted_price, current_price)
    + AnalystScore(AnalystKey(s.recommendationKey))
    + TargetScore(s.targetMeanPrice, current_price)
    + PeScore(s.trailingPE)

\* the record of the normal return (lines 552-563); percentages in hundredths
Recommended(c, s, trend_data, prediction) ==
    LET current_price == c[Len(c)]
        predicted_price == prediction.prices[Len(prediction.prices)]
        score == Score(trend_data, predicted_price, current_price, s)
        target == TargetPrice(s.targetMeanPrice, current_price)
    IN  [recommendation |-> Category(score),
         explanation |-> [text |-> Explanation(Category(score)), error |-> ""],
         score |-> score,
         trend |-> trend_data.trend,
         analyst_recommendation |-> AnalystKey(s.recommendationKey),
         target_mean_price |->
             IF s.targetMeanPrice.k = "missing" THEN [k |-> "num", v |-> current_price]
             ELSE s.targetMeanPrice,
         target_potential |->
             IF target = 0 THEN 0 ELSE PctChange(target, current_price),
         predicted_price |-> predicted_price,
         predicted_change |-> PctChange(predicted_price, current_price),
         prediction |-> prediction]

\* Degraded with a fixed explanation
DegradedNoMessage(msg) ==
    [recommendation |-> "Unable to Generate",
     explanation |-> [text |-> "An error occurred while analyzing the stock", error |-> ""],
     score |-> 0,
     trend |-> "Unknown",
     analyst_recommendation |-> "N/A",
     target_mean_price |-> "N/A",
     target_potential |-> "N/A",
     predicted_price |-> "N/A",
     predicted_change |-> "N/A",
     prediction |-> [dates |-> <<>>, prices |-> <<>>]]

\* the record of the except branch (lines 564-577)
Degraded(msg) ==
    [recommendation |-> "Unable to Generate",
     explanation |-> [text |-> "An error occurred while analyzing the stock: ", error |-> msg],
     score |-> 0,
     trend |-> "Unknown",
     analyst_recommendation |-> "N/A",
     target_mean_price |-> "N/A",
     target_potential |-> "N/A",
     predicted_price |-> "N/A",
     predicted_change |-> "N/A",
     prediction |-> [dates |-> <<>>, prices |-> <<>>]]

-----------------------------------------------------------------------------
(* get_stock_data: the chart record computed from the frame.  volumes and  *)
(* ohlc copy columns the series here does not carry, and stats.volatility  *)
(* is a standard deviation; they are reported only and left out.           *)

\* SmaRounded as with rolling(window=w, min_periods=1)
SmaRoundedPartial(c, w, i) ==
    IF i >= w THEN Round2Q(SumRange(c, i - w + 1, i), w) ELSE Round2Q(SumRange(c, 1, i), i)

\* df['Close'].rolling(window=w).mean().round(2), .fillna(0) at row i
SmaRounded(c, w, i) == IF i >= w THEN Round2Q(SumRange(c, i - w + 1, i), w) ELSE 0

\* (df['Close'].pct_change() * 100).round(2).fillna(0) at row i, in hundredths
DailyReturn(c, i) ==
    IF i = 1 THEN 0 ELSE PctChange(c[i], c[i - 1])

SeqMin(c) == CHOOSE x \in {c[i] : i \in 1..Len(c)} : \A j \in 1..Len(c) : x <= c[j]
SeqMax(c) == CHOOSE x \in {c[i] : i \in 1..Len(c)} : \A j \in 1..Len(c) : x >= c[j]

get_stock_data(c) ==
    LET n == Len(c)
    IN  [dates |-> [i \in 1..n |-> i],
         prices |-> [i \in 1..n |-> Round2(c[i])],
         sma20 |-> [i \in 1..n |-> SmaRounded(c, Sma20Window, i)],
         sma50 |-> [i \in 1..n |-> SmaRounded(c, Sma50Window, i)],
         daily_returns |-> [i \in 1..n |-> DailyReturn(c, i)],
         stats |-> [avg_price |-> Round2Q(SumRange(c, 1, n), n),
                    min_price |-> Round2(SeqMin(c)),
                    max_price |-> Round2(SeqMax(c)),
                    start_price |-> Round2(c[1]),
                    end_price |-> Round2(c[n]),
                    price_change |-> Round2(c[n] - c[1]),
                    price_change_percent |-> PctChange(c[n], c[1])]]

-----------------------------------------------------------------------------
(* get_company_info and get_financial_metrics.  A value of a result is     *)
(* [k |-> "N/A" | "num" | "str" | "none", v |-> value].                    *)

NA == [k |-> "N/A", v |-> 0]

\* info.get(key, 'N/A')
GetOrNA(f) == IF f.k = "missing" THEN NA ELSE f

IsNumber(f) == f.k = "num"

Truthy(f) == (f.k = "num" /\ f.v # 0) \/ f.k = "str"

company_info(s) ==
    [fallback |-> FALSE,
     name |-> GetOrNA(s.shortName),
     sector |-> GetOrNA(s.sector),
     exchange |-> GetOrNA(s.exchange)]

company_info_fallback ==
    [fallback |-> TRUE,
     name |-> [k |-> "str", v |-> "ticker"],
     sector |-> NA,
     exchange |-> NA]

\* round(info.get('dividendYield', 0) * 100, 2) on a text raises TypeError
MetricsRaises(s) == s.dividendYield.k = "str"

\* market_cap in units of 10^6; the T / B / M suffix of market_cap_formatted
MarketCapFormatted(f) ==
    IF ~IsNumber(f) THEN "N/A"
    ELSE IF f.v >= 1000000 THEN "T"
    ELSE IF f.v >= 1000 THEN "B"
    ELSE IF f.v >= 1 THEN "M"
    ELSE "units"

financial_metrics(s, formatted_ticker) ==
    LET is_indian_stock ==
            EndsWith(formatted_ticker, DotNS) \/ EndsWith(formatted_ticker, DotBO)
    IN  [current_price |->
             IF s.currentPrice.k = "missing" THEN GetOrNA(s.regularMarketPrice)
             ELSE s.currentPrice,
         previous_close |-> GetOrNA(s.previousClose),
         open |-> GetOrNA(s.open),
         day_low |-> GetOrNA(s.dayLow),
         day_high |-> GetOrNA(s.dayHigh),
         market_cap |-> GetOrNA(s.marketCap),
         market_cap_formatted |-> MarketCapFormatted(GetOrNA(s.marketCap)),
         volume |-> GetOrNA(s.volume),
         avg_volume |-> GetOrNA(s.averageVolume),
         pe_ratio |-> GetOrNA(s.trailingPE),
         eps |-> GetOrNA(s.trailingEps),
         forward_pe |-> GetOrNA(s.forwardPE),
         dividend_yield |->
             IF Truthy(s.dividendYield)
                 THEN [k |-> "num", v |-> 100 * s.dividendYield.v]
                 ELSE NA,
         fifty_two_week_high |-> GetOrNA(s.fiftyTwoWeekHigh),
         fifty_two_week_low |-> GetOrNA(s.fiftyTwoWeekLow),
         beta |-> GetOrNA(s.beta),
         target_mean_price |-> GetOrNA(s.targetMeanPrice),
         target_high_price |-> GetOrNA(s.targetHighPrice),
         target_low_price |-> GetOrNA(s.targetLowPrice),
         recommendation_key |-> GetOrNA(s.recommendationKey),
         currency_symbol |-> IF is_indian_stock THEN "INR" ELSE "USD",
         is_indian_stock |-> is_indian_stock,
         degraded |-> FALSE]

\* the record of the except branch (lines 245-266): no currency_symbol, no
\* is_indian_stock
financial_metrics_fallback ==
    [current_price |-> NA, previous_close |-> NA, open |-> NA, day_low |-> NA,
     day_high |-> NA, market_cap |-> NA, market_cap_formatted |-> "N/A",
     volume |-> NA, avg_volume |-> NA, pe_ratio |-> NA, eps |-> NA,
     forward_pe |-> NA, dividend_yield |-> NA, fifty_two_week_high |-> NA,
     fifty_two_week_low |-> NA, beta |-> NA, target_mean_price |-> NA,
     target_high_price |-> NA, target_low_price |-> NA,
     recommendation_key |-> NA, degraded |-> TRUE]

-----------------------------------------------------------------------------
(* The inputs: ticker texts, bar series, info mappings, fitted models.     *)

MaxBase == 3
MaxLen == 3
MaxDays == 3

PredictDays == 30

Missing == [k |-> "missing", v |-> 0]
NoneValue == [k |-> "none", v |-> 0]
Num(x) == [k |-> "num", v |-> x]
Str(x) == [k |-> "str", v |-> x]

\* an info mapping with no key at all
EmptySnap ==
    [shortName |-> Missing, sector |-> Missing, exchange |-> Missing,
     currentPrice |-> Missing, regularMarketPrice |-> Missing,
     previousClose |-> Missing, open |-> Missing, dayLow |-> Missing,
     dayHigh |-> Missing, marketCap |-> Missing, volume |-> Missing,
     averageVolume |-> Missing, trailingPE |-> Missing, trailingEps |-> Missing,
     forwardPE |-> Missing, dividendYield |-> Missing,
     fiftyTwoWeekHigh |-> Missing, fiftyTwoWeekLow |-> Missing, beta |-> Missing,
     targetMeanPrice |-> Missing, targetHighPrice |-> Missing,
     targetLowPrice |-> Missing, recommendationKey |-> Missing]

FullSnap ==
    [shortName |-> Str("Acme"), sector |-> Str("Technology"), exchange |-> Str("NMS"),
     currentPrice |-> Missing, regularMarketPrice |-> Num(100000),
     previousClose |-> Num(99500), open |-> Num(99700), dayLow |-> Num(99000),
     dayHigh |-> Num(101000), marketCap |-> Num(2500), volume |-> Num(1200),
     averageVolume |-> Num(1100), trailingPE |-> Num(1850), trailingEps |-> Num(5400),
     forwardPE |-> Num(1700), dividendYield |-> Num(2),
     fiftyTwoWeekHigh |-> Num(120000), fiftyTwoWeekLow |-> Num(80000),
     beta |-> Num(110), targetMeanPrice |-> Num(112000),
     targetHighPrice |-> Num(130000), targetLowPrice |-> Num(90000),
     recommendationKey |-> Str("buy")]

\* a mapping whose numbers arrive as text
TextSnap ==
    [FullSnap EXCEPT !.trailingPE = Str("Infinity"), !.dividendYield = Str("1.2%")]

Snap(rk, target, pe) ==
    [FullSnap EXCEPT !.recommendationKey = rk, !.targetMeanPrice = target,
                     !.trailingPE = pe]

AnalystKeys ==
    {Missing, Str("buy"), Str("strongBuy"), Str("sell"), Str("strongSell"), Str("hold")}

TargetPrices ==
    {Missing, NoneValue, Num(0), Num(80000), Num(85000), Num(90000), Num(95000),
     Num(105000), Num(110000), Num(115000), Num(125000), Str("n/a")}

TrailingPEs ==
    {Missing, NoneValue, Num(0), Num(-300), Num(500), Num(1850), Num(2500),
     Num(5000), Num(5001)}

CoreSnaps == {EmptySnap, FullSnap, TextSnap}

RichSnaps == {Snap(rk, t, pe) : rk \in AnalystKeys, t \in TargetPrices, pe \in TrailingPEs}

\* first for k rows, then level, level + step, level + 2 * step, ...
Shape(n, first, k, level, step) ==
    [i \in 1..n |-> IF i <= k THEN first ELSE level + step * (i - k - 1)]

Flat(n, p) == Shape(n, p, n, p, 0)

\* the bars of period='1y': 12 months of 21 trading days
TradingYear == 12 * 21

ShapeLens == {14, 20, 21, 51, 252}
ShapePrices == {10003, 95007}
ShapeSteps == {-7, 0, 7}

Shapes ==
    {Shape(n, f, k, l, st) : n \in ShapeLens, f \in ShapePrices, k \in {1, 6},
                              l \in ShapePrices, st \in ShapeSteps}

ShortPrices == {99995, 100000, 103004}

\* every series of 1..MaxLen closes over ShortPrices
ShortSeries ==
    UNION {[1..n -> ShortPrices] : n \in 1..MaxLen}

FlatYear == Flat(TradingYear, 100003)

RichSeries == Shapes \cup ShortSeries \cup {FlatYear}

CoreSeries == {Flat(TradingYear, 100000), Shape(20, 10003, 1, 95007, -7)}

\* what stock.history returns in the request pipeline (<<>>: an empty frame)
SourceSeries == {<<>>, FlatYear, Shape(20, 10003, 1, 95007, -7), <<99995, 103004>>}

\* the fitted models LinearRegression may return for a series: determined
\* when the training closes are all equal, else any of a family around the
\* last close (intercept a percentage of it, slope in mills per day)
InterceptPcts == {-50, 0, 80, 90, 100, 110, 120}
Slopes == {-300, 0}

Models(c) ==
    IF FlatTraining(c) THEN {[a |-> c[Len(c)], b |-> 0]}
    ELSE {[a |-> (pct * c[Len(c)]) \div 100, b |-> sl] : pct \in InterceptPcts, sl \in Slopes}

\* ticker texts: a base over BaseChars followed by an ending
BaseChars == {"A", "-", "."}

RECURSIVE TextsUpTo(_)
TextsUpTo(n) ==
    IF n = 0 THEN {<<>>}
    ELSE LET shorter == TextsUpTo(n - 1)
         IN  shorter \cup {Append(t, ch) : t \in {u \in shorter : Len(u) = n - 1},
                                           ch \in BaseChars}

Endings ==
    {<<>>, DashNSE, DashBSE, DotNS, DotBO, <<"-", "n", "s", "e">>,
     <<"-", "B", "S", "E", " ">>, <<".", "N", "S", "X">>, <<"-", "N", "S">>}

NamedTickers ==
    { <<"R", "E", "L", "I", "A", "N", "C", "E", "-", "N", "S", "E">>,
      <<"T", "C", "S", "-", "B", "S", "E">>,
      <<"A", "A", "P", "L">>,
      <<"I", "N", "F", "O", "S", "Y", "S">>,
      <<"G", "O", "O", "G", "L">>,
      <<"A", "B", "C", "1", "2", "3">>,
      <<"A", "-", "B", "-", "N", "S", "E">> }

GenTickers == {b \o e : b \in TextsUpTo(MaxBase), e \in Endings} \cup NamedTickers

\* the ticker parameter of a request
RequestTickers ==
    { <<>>,
      <<"A", "A", "P", "L">>,
      <<"t", "c", "s", "-", "b", "s", "e">>,
      <<"I", "N", "F", "O", "S", "Y", "S">>,
      <<"A", ".", "N", "S", "X">>,
      <<"A", "-", "B", "-", "N", "S", "E">> }

-----------------------------------------------------------------------------
(* The state before anything ran *)

NoData == [dates |-> <<>>]
NoInfo == [fallback |-> FALSE, name |-> NA, sector |-> NA, exchange |-> NA]
NoMetrics == [degraded |-> FALSE, none |-> TRUE]
NoTrend == [trend |-> "", strength |-> 0]
NoRec == [recommendation |-> "", score |-> 0]
NoResponse == [status |-> 0, kind |-> "none", error |-> ""]
NoLoop == [days |-> 0, i |-> 0, last_price |-> 0, future_prices |-> <<>>]

\* error messages (str(e))
ConnectivityMsg == "Unable to connect to Yahoo Finance. Please check your internet connection"
NoDataMsg == "No data available for ticker"
NoHistoryMsg == "No historical data available for"
SourceMsg == "data source request failed"
FitMsg == "Input contains NaN"
TypeMsg == "unsupported operand or comparison between 'str' and a number"

\* one interaction with the outside world: the operation, the function that
\* made it, the symbol asked for, and how it ended
Call(op, by, sym, out) == [op |-> op, by |-> by, sym |-> sym, out |-> out]

\* what a history call returns or raises
HistoryOutcomes == {[raised |-> TRUE, series |-> <<>>]}
                   \cup {[raised |-> FALSE, series |-> c] : c \in SourceSeries}

HistoryOut(o) == IF o.raised THEN "raised" ELSE IF o.series = <<>> THEN "empty" ELSE "data"

\* how the entry point ends when e propagates out of it: the route's except
\* branch answers 400, a direct call raises
Failure(e) ==
    IF req = "none" THEN [status |-> 0, kind |-> "raised", error |-> e]
    ELSE [status |-> 400, kind |-> "error", error |-> e]

\* get_stock_dataframe returned c to its caller
Returned(c) ==
    /\ df' = c
    /\ IF req = "analyze"
           THEN /\ data' = get_stock_data(c)
                /\ pc' = "company"
                /\ UNCHANGED response
           ELSE /\ pc' = "done"
                /\ response' = [status |-> IF req = "export" THEN 200 ELSE 0,
                                kind |-> IF req = "export" THEN "csv" ELSE "returned",
                                error |-> ""]
                /\ UNCHANGED data

Raised(e) ==
    /\ pc' = "done"
    /\ response' = Failure(e)
    /\ UNCHANGED <<df, data>>

-----------------------------------------------------------------------------
(* The routes and get_stock_dataframe *)

\* app.get_stock_data / app.download_csv: the ticker parameter
Route ==
    /\ pc = "route"
    /\ ticker' = Upper(ticker)
    /\ IF ticker = <<>>
           THEN /\ pc' = "done"
                /\ response' = [status |-> 400, kind |-> "error",
                                error |-> "No ticker symbol provided"]
           ELSE /\ pc' = "probe"
                /\ UNCHANGED response
    /\ UNCHANGED <<req, calls, formatted, df, histn, data, info, metrics, rdf, snap,
                   trend, rec, pp>>

\* Probe with the failure of the request swallowed
ProbeSwallowed ==
    /\ pc = "probe"
    /\ \E ok \in BOOLEAN :
         calls' = Append(calls, Call("probe", "get_stock_dataframe", <<>>,
                                     IF ok THEN "ok" ELSE "raised"))
    /\ formatted' = format_ticker(ticker)
    /\ pc' = "history"
    /\ UNCHANGED <<ticker, req, df, histn, data, info, metrics, rdf, snap, trend, rec,
                   response, pp>>

\* get_stock_dataframe: requests.get(...), then format_ticker
Probe ==
    /\ pc = "probe"
    /\ \E ok \in BOOLEAN :
         /\ calls' = Append(calls, Call("probe", "get_stock_dataframe", <<>>,
                                        IF ok THEN "ok" ELSE "raised"))
         /\ IF ok
                THEN /\ formatted' = format_ticker(ticker)
                     /\ pc' = "history"
                     /\ UNCHANGED response
                ELSE /\ pc' = "done"
                     /\ response' = Failure(ConnectivityMsg)
                     /\ UNCHANGED formatted
    /\ UNCHANGED <<ticker, req, df, histn, data, info, metrics, rdf, snap, trend, rec, pp>>

RetryOnNS(formatted_ticker) == Contains(formatted_ticker, DotNS)
RetryOnBO(formatted_ticker) == Contains(formatted_ticker, DotBO)

\* the symbol of the second fetch
Alternative(formatted_ticker) ==
    IF RetryOnNS(formatted_ticker) THEN Replace(formatted_ticker, DotNS, DotBO)
    ELSE Replace(formatted_ticker, DotBO, DotNS)

\* get_stock_dataframe: stock.history on the formatted ticker
HistoryFirst ==
    /\ pc = "history"
    /\ \E o \in HistoryOutcomes :
         /\ calls' = Append(calls, Call("history", "get_stock_dataframe", formatted,
                                        HistoryOut(o)))
         /\ histn' = histn + 1
         /\ IF o.raised THEN Raised(SourceMsg)
            ELSE IF o.series = <<>> /\ (RetryOnNS(formatted) \/ RetryOnBO(formatted))
                THEN /\ pc' = "retry"
                     /\ UNCHANGED <<df, data, response>>
            ELSE IF o.series = <<>> THEN Raised(NoDataMsg)
            ELSE Returned(o.series)
    /\ UNCHANGED <<ticker, req, formatted, info, metrics, rdf, snap, trend, rec, pp>>

\* get_stock_dataframe: stock.history on the other exchange
HistoryRetry ==
    /\ pc = "retry"
    /\ \E o \in HistoryOutcomes :
         /\ calls' = Append(calls, Call("history", "get_stock_dataframe", Alternative(formatted),
                                     HistoryOut(o)))
         /\ histn' = histn + 1
         /\ IF o.raised THEN Raised(SourceMsg)
            ELSE IF o.series = <<>> THEN Raised(NoDataMsg)
            ELSE Returned(o.series)
    /\ UNCHANGED <<ticker, req, formatted, info, metrics, rdf, snap, trend, rec, pp>>

-----------------------------------------------------------------------------
(* get_company_info, get_financial_metrics *)

\* what stock.info returns or raises
InfoOutcomes == {[raised |-> TRUE, info |-> EmptySnap]}
                \cup {[raised |-> FALSE, info |-> s] : s \in CoreSnaps}

InfoOut(o) == IF o.raised THEN "raised" ELSE "ok"

\* get_company_info: stock.info, the company record or the fallback
CompanyInfo ==
    /\ pc = "company"
    /\ \E o \in InfoOutcomes :
         /\ calls' = Append(calls, Call("info", "get_company_info", format_ticker(ticker),
                                        InfoOut(o)))
         /\ info' = IF o.raised THEN company_info_fallback ELSE company_info(o.info)
    /\ pc' = "metrics"
    /\ UNCHANGED <<ticker, req, formatted, df, histn, data, metrics, rdf, snap, trend,
                   rec, response, pp>>

\* Metrics without the try / except
MetricsPropagates ==
    /\ pc = "metrics"
    /\ \E o \in InfoOutcomes :
         /\ calls' = Append(calls, Call("info", "get_financial_metrics",
                                        format_ticker(ticker), InfoOut(o)))
         /\ IF o.raised \/ MetricsRaises(o.info)
                THEN /\ pc' = "done"
                     /\ response' = Failure(SourceMsg)
                     /\ UNCHANGED metrics
                ELSE /\ pc' = "rec"
                     /\ metrics' = financial_metrics(o.info, format_ticker(ticker))
                     /\ UNCHANGED response
    /\ UNCHANGED <<ticker, req, formatted, df, histn, data, info, rdf, snap, trend,
                   rec, pp>>

\* get_financial_metrics: stock.info, the metrics record or the fallback
Metrics ==
    /\ pc = "metrics"
    /\ \E o \in InfoOutcomes :
         /\ calls' = Append(calls, Call("info", "get_financial_metrics",
                                        format_ticker(ticker), InfoOut(o)))
         /\ metrics' = IF o.raised \/ MetricsRaises(o.info)
                           THEN financial_metrics_fallback
                           ELSE financial_metrics(o.info, format_ticker(ticker))
    /\ pc' = "rec"
    /\ UNCHANGED <<ticker, req, formatted, df, histn, data, info, rdf, snap, trend,
                   rec, response, pp>>

-----------------------------------------------------------------------------
(* get_recommendation *)

\* get_recommendation returned r: the route answers with the whole analysis
Finish(r) ==
    /\ rec' = r
    /\ pc' = "done"
    /\ response' = IF req = "analyze"
                       THEN [status |-> 200, kind |-> "analysis", error |-> ""]
                       ELSE [status |-> 0, kind |-> "returned", error |-> ""]

\* lines 459-465: format_ticker, stock.history(period='1y'), the empty check
RecHistory ==
    /\ pc = "rec"
    /\ formatted' = format_ticker(ticker)
    /\ \E o \in HistoryOutcomes :
         /\ calls' = Append(calls, Call("history", "get_recommendation", format_ticker(ticker),
                                        HistoryOut(o)))
         /\ IF o.raised THEN Finish(Degraded(SourceMsg)) /\ UNCHANGED rdf
            ELSE IF o.series = <<>> THEN Finish(Degraded(NoHistoryMsg)) /\ UNCHANGED rdf
            ELSE /\ rdf' = o.series
                 /\ pc' = "rec_info"
                 /\ UNCHANGED <<rec, response>>
    /\ UNCHANGED <<ticker, req, df, histn, data, info, metrics, snap, trend, pp>>

\* line 468: stock.info
RecInfo ==
    /\ pc = "rec_info"
    /\ \E o \in InfoOutcomes :
         /\ calls' = Append(calls, Call("info", "get_recommendation", formatted, InfoOut(o)))
         /\ IF o.raised THEN Finish(Degraded(SourceMsg)) /\ UNCHANGED snap
            ELSE /\ snap' = o.info
                 /\ pc' = "rec_compute"
                 /\ UNCHANGED <<rec, response>>
    /\ UNCHANGED <<ticker, req, formatted, df, histn, data, info, metrics, rdf, trend, pp>>

\* what LinearRegression().fit does on the series: a model, or it raises
FitOutcomes(c) == {[raised |-> TRUE, model |-> [a |-> 0, b |-> 0]]}
                  \cup {[raised |-> FALSE, model |-> m] : m \in Models(c)}

\* lines 471-563: trend, prediction, score, category
RecCompute ==
    /\ pc = "rec_compute"
    /\ trend' = get_trend_strength(rdf)
    /\ \E f \in FitOutcomes(rdf) :
         IF f.raised THEN Finish(Degraded(FitMsg))
         ELSE IF ScoringRaises(snap) THEN Finish(Degraded(TypeMsg))
         ELSE Finish(Recommended(rdf, snap, get_trend_strength(rdf),
                                 predict_price(f.model, PredictDays)))
    /\ UNCHANGED <<ticker, req, calls, formatted, df, histn, data, info, metrics, rdf,
                   snap, pp>>

-----------------------------------------------------------------------------
(* Direct calls of format_ticker and of predict_price *)

FormatTicker ==
    /\ pc = "format"
    /\ formatted' = format_ticker(ticker)
    /\ pc' = "done"
    /\ response' = [status |-> 0, kind |-> "returned", error |-> ""]
    /\ UNCHANGED <<ticker, req, calls, df, histn, data, info, metrics, rdf, snap, trend,
                   rec, pp>>

\* get_stock_data on a frame get_stock_dataframe returned (lines 98-150)
StockData ==
    /\ pc = "chart"
    /\ data' = get_stock_data(df)
    /\ pc' = "done"
    /\ response' = [status |-> 0, kind |-> "returned", error |-> ""]
    /\ UNCHANGED <<ticker, req, calls, formatted, df, histn, info, metrics, rdf, snap,
                   trend, rec, pp>>

\* the values model.predict may return on one day, in mills
RawValues == {-100000, -10, 0, 4, 97000, 99995, 100000, 103000, 103004, 200000}

\* one iteration of the loop of predict_price (lines 308-339), the model's
\* value being any of RawValues.  last_ma7 and last_ma14 only feed
\* model.predict, whose value is chosen here, and are not kept.
PredictIter ==
    /\ pc = "predict"
    /\ pp.i <= pp.days
    /\ \E raw \in RawValues :
         pp' = [pp EXCEPT !.future_prices = Append(@, ClampedPrice(@, raw)),
                          !.i = @ + 1]
    /\ pc' = IF pp.i = pp.days THEN "done" ELSE "predict"
    /\ response' = IF pp.i = pp.days
                       THEN [status |-> 0, kind |-> "returned", error |-> ""]
                       ELSE response
    /\ UNCHANGED <<ticker, req, calls, formatted, df, histn, data, info, metrics, rdf,
                   snap, trend, rec>>

-----------------------------------------------------------------------------
(* Specifications *)

Blank ==
    /\ calls = <<>>
    /\ formatted = <<>>
    /\ df = <<>>
    /\ histn = 0
    /\ data = NoData
    /\ info = NoInfo
    /\ metrics = NoMetrics
    /\ trend = NoTrend
    /\ rec = NoRec
    /\ response = NoResponse

\* a request to /api/stock_data or /api/download_csv
Init ==
    /\ ticker \in RequestTickers
    /\ req \in {"analyze", "export"}
    /\ pc = "route"
    /\ rdf = <<>>
    /\ snap = EmptySnap
    /\ pp = NoLoop
    /\ Blank

Next ==
    \/ Route
    \/ Probe
    \/ HistoryFirst
    \/ HistoryRetry
    \/ CompanyInfo
    \/ Metrics
    \/ RecHistory
    \/ RecInfo
    \/ RecCompute

Spec == Init /\ [][Next]_vars

\* format_ticker(ticker) called on every ticker text of GenTickers
InitTicker ==
    /\ ticker \in GenTickers
    /\ req = "none"
    /\ pc = "format"
    /\ rdf = <<>>
    /\ snap = EmptySnap
    /\ pp = NoLoop
    /\ Blank

SpecTicker == InitTicker /\ [][FormatTicker]_vars

\* get_stock_dataframe(ticker) called on every ticker text of GenTickers
InitFrame ==
    /\ ticker \in GenTickers
    /\ req = "none"
    /\ pc = "probe"
    /\ rdf = <<>>
    /\ snap = EmptySnap
    /\ pp = NoLoop
    /\ Blank

NextFrame == Probe \/ HistoryFirst \/ HistoryRetry

SpecFrame == InitFrame /\ [][NextFrame]_vars

\* get_recommendation at its computation, the history and the info fetched
InitScore ==
    /\ ticker = <<"A", "A", "P", "L">>
    /\ req = "none"
    /\ pc = "rec_compute"
    /\ \/ rdf \in RichSeries /\ snap \in CoreSnaps
       \/ rdf \in CoreSeries /\ snap \in RichSnaps
    /\ pp = NoLoop
    /\ Blank

SpecScore == InitScore /\ [][RecCompute]_vars

\* predict_price(df, days) called with 1..MaxDays days, any model
InitPredict ==
    /\ ticker = <<"A", "A", "P", "L">>
    /\ req = "none"
    /\ pc = "predict"
    /\ rdf = <<>>
    /\ snap = EmptySnap
    /\ \E d \in 1..MaxDays, p \in ShortPrices :
         pp = [days |-> d, i |-> 1, last_price |-> p, future_prices |-> <<>>]
    /\ Blank

SpecPredict == InitPredict /\ [][PredictIter]_vars

\* get_stock_data at its computation, the frame fetched
InitChart ==
    /\ ticker = <<"A", "A", "P", "L">>
    /\ req = "none"
    /\ pc = "chart"
    /\ calls = <<>>
    /\ formatted = <<>>
    /\ df \in RichSeries
    /\ histn = 1
    /\ data = NoData
    /\ info = NoInfo
    /\ metrics = NoMetrics
    /\ trend = NoTrend
    /\ rec = NoRec
    /\ response = NoResponse
    /\ rdf = <<>>
    /\ snap = EmptySnap
    /\ pp = NoLoop

SpecChart == InitChart /\ [][StockData]_vars

-----------------------------------------------------------------------------
(* Properties *)

NotDegraded == rec.recommendation # "" /\ rec.recommendation # "Unable to Generate"

IsDegraded == rec.recommendation = "Unable to Generate"

Computed == pc = "done" /\ trend # NoTrend /\ NotDegraded

ContributesNothing(s) ==
    /\ s.recommendationKey.k = "missing"
    /\ s.targetMeanPrice.k = "missing"
    /\ s.trailingPE.k = "missing"

IsFlatYear(c) == Len(c) = TradingYear /\ \A i \in 1..Len(c) : c[i] = c[1]

\* C1: for a series of 252 bars with one close P and an info mapping without
\* analyst key, target price and P/E, the trend is "Sideways" with strength 0
\* and RSI 50, the 30 predicted prices all equal P, and the category is "Hold".
C1_FlatMarketHold ==
    (Computed /\ IsFlatYear(rdf) /\ ContributesNothing(snap)) =>
        /\ trend.trend = "Sideways"
        /\ trend.strength = 0
        /\ trend.rsi = 5000
        /\ Len(rec.prediction.prices) = PredictDays
        /\ \A i \in 1..Len(rec.prediction.prices) : rec.prediction.prices[i] = rdf[1]
        /\ rec.recommendation = "Hold"

\* what the code does on the flat year of C1 (kept beside the counterexample)
C1_FlatMarketObserved ==
    (Computed /\ IsFlatYear(rdf) /\ ContributesNothing(snap)) =>
        /\ trend.trend = "Strong Downtrend"
        /\ trend.strength = -5
        /\ trend.rsi = 5000
        /\ \A i \in 1..Len(rec.prediction.prices) :
               rec.prediction.prices[i] = Round2(rdf[1])
        /\ rec.score = -5
        /\ rec.recommendation = "Sell"

\* C2 as stated: the strength get_trend_strength returns is an integer in
\* [-6, 6]; 7 and -7 are never produced.
C2_StrengthWithin6 == trend.strength \in -6..6

\* C2 as amended: the strength is an integer in [-7, 7], the sum of the base
\* strength, of +1 / -1 for a golden / death cross and of -1 / +1 for an
\* overbought / oversold RSI.
C2_StrengthWithin7 ==
    trend # NoTrend =>
        /\ trend.strength \in -7..7
        /\ trend.base \in {5, 4, 3, 0, -3, -4, -5}
        /\ trend.strength = trend.base
                            + (IF trend.golden_cross THEN 1
                               ELSE IF trend.death_cross THEN -1 ELSE 0)
                            + (IF trend.overbought THEN -1
                               ELSE IF trend.oversold THEN 1 ELSE 0)

\* base 5, golden cross and oversold together
C2_StrengthSeven ==
    /\ trend # NoTrend
    /\ trend.base = 5 /\ trend.golden_cross /\ trend.oversold
    /\ trend.strength = 7

Categories ==
    <<"Strong Sell", "Sell", "Moderate Sell", "Hold", "Moderate Buy", "Buy", "Strong Buy">>

Rank(category) == CHOOSE i \in 1..Len(Categories) : Categories[i] = category

ScoreRange == -15..15

\* C3: the category of a score is one of the 7, the mapping is monotone in
\* the score, and 5, 3, 1, -1, -3, -5 map to Strong Buy, Buy, Moderate Buy,
\* Hold, Moderate Sell, Sell, any score below -5 to Strong Sell.
C3_CategoryMapping ==
    Computed =>
        /\ \E i \in 1..Len(Categories) : Categories[i] = rec.recommendation
        /\ rec.score \in ScoreRange
        /\ \A s2 \in ScoreRange :
             /\ s2 <= rec.score => Rank(Category(s2)) <= Rank(rec.recommendation)
             /\ s2 >= rec.score => Rank(Category(s2)) >= Rank(rec.recommendation)
        /\ rec.score = 5 => rec.recommendation = "Strong Buy"
        /\ rec.score = 3 => rec.recommendation = "Buy"
        /\ rec.score = 1 => rec.recommendation = "Moderate Buy"
        /\ rec.score = -1 => rec.recommendation = "Hold"
        /\ rec.score = -3 => rec.recommendation = "Moderate Sell"
        /\ rec.score = -5 => rec.recommendation = "Sell"
        /\ rec.score < -5 => rec.recommendation = "Strong Sell"

C3_BoundaryReached == Computed /\ rec.score = 5 /\ rec.recommendation = "Strong Buy"

\* bracket(x) of C5 for x = (n / d - 1) * 100, each case as the claim words it
C5_Bracket(n, d) ==
    CASE 100 * (n - d) > 15 * d -> 2
      [] 100 * (n - d) > 5 * d /\ 100 * (n - d) <= 15 * d -> 1
      [] 100 * (n - d) >= -15 * d /\ 100 * (n - d) < -5 * d -> -1
      [] 100 * (n - d) < -15 * d -> -2
      [] OTHER -> 0

C5_Analyst(f) ==
    IF f.k = "str" /\ f.v \in {"buy", "strongBuy"} THEN 1
    ELSE IF f.k = "str" /\ f.v \in {"sell", "strongSell"} THEN -1
    ELSE 0

C5_Target(f, current_price) ==
    IF f.k = "num" /\ f.v # 0 THEN C5_Bracket(f.v, current_price) ELSE 0

C5_Valuation(f) ==
    IF f.k = "num" /\ f.v > 500 /\ f.v < 2500 THEN 1
    ELSE IF f.k = "num" /\ f.v > 5000 THEN -1
    ELSE 0

\* C5: on the normal path the score is the sum of the trend strength, the
\* bracket of the predicted change, the analyst term, the bracket of the
\* target potential (0 without a target) and the valuation term.
C5_ScoreIsSum ==
    Computed =>
        rec.score = trend.strength
                    + C5_Bracket(rec.predicted_price, rdf[Len(rdf)])
                    + C5_Analyst(snap.recommendationKey)
                    + C5_Target(snap.targetMeanPrice, rdf[Len(rdf)])
                    + C5_Valuation(snap.trailingPE)

\* all five contributions are non-zero
C5_AllContribute ==
    /\ Computed
    /\ trend.strength # 0
    /\ C5_Bracket(rec.predicted_price, rdf[Len(rdf)]) # 0
    /\ C5_Analyst(snap.recommendationKey) # 0
    /\ C5_Target(snap.targetMeanPrice, rdf[Len(rdf)]) # 0
    /\ C5_Valuation(snap.trailingPE) # 0

\* the rounding to 2 decimals moves a price by at most half a cent (10 mills)
RoundingEpsilon == 10 \div 2

\* C4: whatever the model outputs, for all i > 0,
\* abs(prices[i] - prices[i-1]) <= 0.03 * prices[i-1] + epsilon.
C4_ChangeWithin3PctOfPrev ==
    \A i \in 2..Len(pp.future_prices) :
        100 * Abs(pp.future_prices[i] - pp.future_prices[i - 1])
            <= 3 * pp.future_prices[i - 1] + 100 * RoundingEpsilon

\* what holds of the code: the change is within 3% of the size of the
\* previous price, abs(prices[i] - prices[i-1]) <= 0.03 * abs(prices[i-1]) + epsilon
C4_ChangeWithin3PctOfAbsPrev ==
    \A i \in 2..Len(pp.future_prices) :
        100 * Abs(pp.future_prices[i] - pp.future_prices[i - 1])
            <= 3 * Abs(pp.future_prices[i - 1]) + 100 * RoundingEpsilon

HistoryCalls == SelectSeq(calls, LAMBDA x : x.op = "history")

\* the text before the 3-character exchange suffix
Stem(sym) == SubSeq(sym, 1, Len(sym) - 3)

\* C6: get_stock_dataframe fetches the normalized symbol first; a second
\* fetch happens only after an empty first series and only for a symbol with
\* the .NS suffix (then for the same symbol with .BO) or with the .BO suffix
\* (then with .NS); at most 2 fetches; an empty last series fails with the
\* no-data error, a non-empty one is returned.
C6_SuffixFallbackOnce ==
    LET h == HistoryCalls
    IN  /\ Len(h) <= 2
        /\ Len(h) >= 1 => h[1].sym = format_ticker(ticker)
        /\ Len(h) = 2 =>
             /\ h[1].out = "empty"
             /\ \/ EndsWith(h[1].sym, DotNS) /\ h[2].sym = Stem(h[1].sym) \o DotBO
                \/ EndsWith(h[1].sym, DotBO) /\ h[2].sym = Stem(h[1].sym) \o DotNS
        /\ (pc = "done" /\ Len(h) >= 1 /\ h[Len(h)].out = "empty") =>
             (response.kind = "raised" /\ response.error = NoDataMsg)
        /\ (pc = "done" /\ Len(h) >= 1 /\ h[Len(h)].out = "data") =>
             (response.kind = "returned" /\ df # <<>>)

CallsBy(f) == SelectSeq(calls, LAMBDA x : x.by = f)

RecFailureMessages == {SourceMsg, NoHistoryMsg, FitMsg, TypeMsg}

\* C7: get_recommendation never raises; on a failure of a step it returns
\* "Unable to Generate", score 0, trend "Unknown", the error's message in the
\* explanation and an empty prediction; and it returns that record only then.
C7_RecommendationAbsorbs ==
    LET r == CallsBy("get_recommendation")
        last == r[Len(r)]
        failed == \/ last.out \in {"raised", "empty"}
                  \/ (last.op = "info" /\ last.out = "ok" /\ ScoringRaises(snap))
                  \/ rec.explanation.error = FitMsg
    IN  (pc = "done" /\ Len(r) >= 1) =>
            /\ response.kind = "analysis" /\ response.status = 200
            /\ rec.recommendation # ""
            /\ IsDegraded =>
                 /\ rec.score = 0
                 /\ rec.trend = "Unknown"
                 /\ rec.explanation.error \in RecFailureMessages
                 /\ rec.prediction.dates = <<>> /\ rec.prediction.prices = <<>>
                 /\ failed
            /\ last.out = "raised" => IsDegraded /\ rec.explanation.error = SourceMsg
            /\ last.out = "empty" => IsDegraded /\ rec.explanation.error = NoHistoryMsg
            /\ (last.op = "info" /\ last.out = "ok" /\ ScoringRaises(snap)) =>
                 IsDegraded /\ rec.explanation.error \in {TypeMsg, FitMsg}
            /\ NotDegraded => rec.explanation.error = ""

\* the info lookup of get_recommendation raised and the request completed
C7_AbsorbedInfoFailure ==
    LET r == CallsBy("get_recommendation")
    IN  /\ pc = "done" /\ Len(r) = 2
        /\ r[2].op = "info" /\ r[2].out = "raised"
        /\ IsDegraded /\ rec.explanation.error = SourceMsg
        /\ response.kind = "analysis"

FundamentalFields(m) ==
    {m.current_price, m.market_cap, m.pe_ratio, m.eps, m.fifty_two_week_high,
     m.fifty_two_week_low, m.recommendation_key, m.target_mean_price,
     m.target_high_price, m.target_low_price, m.beta, m.dividend_yield}

\* C8: when the info lookup of get_financial_metrics fails, every fundamental
\* field of its result is 'N/A', and the analyze request still completes.
C8_MetricsDegrade ==
    LET m == CallsBy("get_financial_metrics")
    IN  (Len(m) = 1 /\ m[1].out = "raised") =>
            /\ metrics # NoMetrics
            /\ \A f \in FundamentalFields(metrics) : f.k = "N/A"
            /\ metrics.market_cap_formatted = "N/A"
            /\ pc # "done" => response = NoResponse
            /\ pc = "done" => (response.kind = "analysis" /\ response.status = 200)

\* only the lookup of get_financial_metrics failed, and the request completed
C8_OnlyMetricsFailed ==
    /\ pc = "done"
    /\ \A i \in 1..Len(calls) :
         calls[i].out = "raised" <=> calls[i].by = "get_financial_metrics"
    /\ \E i \in 1..Len(calls) : calls[i].by = "get_financial_metrics"
    /\ NotDegraded
    /\ response.status = 200

\* C9: the connectivity probe is the first interaction of an analyze or
\* export request; no history or info call is made before it or after it
\* failed, and then the request fails with the connectivity error.
C9_ProbeFirst ==
    /\ calls # <<>> => (calls[1].op = "probe" /\ \A i \in 2..Len(calls) : calls[i].op # "probe")
    /\ \A i \in 1..Len(calls) :
         calls[i].op \in {"history", "info"} => (i > 1 /\ calls[1].out = "ok")
    /\ (calls # <<>> /\ calls[1].out = "raised") =>
         /\ Len(calls) = 1
         /\ pc = "done"
         /\ response.kind = "error" /\ response.status = 400
         /\ response.error = ConnectivityMsg

\* the probe failed
C9_ProbeFailed ==
    /\ req \in {"analyze", "export"}
    /\ Len(calls) = 1 /\ calls[1].op = "probe" /\ calls[1].out = "raised"
    /\ response.error = ConnectivityMsg

C10_Normal(raw) == Strip(Upper(raw))

\* C10: an input without '.' that ends, uppercased and trimmed, with -NSE or
\* -BSE is returned as BASE.NS or BASE.BO, BASE being the text before that
\* ending, also when BASE contains '-'.
C10_ExchangeEnding ==
    LET t == C10_Normal(ticker)
        base == SubSeq(t, 1, Len(t) - 4)
    IN  (pc = "done" /\ ~HasChar(ticker, ".")) =>
            /\ EndsWith(t, DashNSE) => formatted = base \o DotNS
            /\ EndsWith(t, DashBSE) => formatted = base \o DotBO
            /\ ~EndsWith(formatted, DashNSE) /\ ~EndsWith(formatted, DashBSE)

\* what holds of the code: the rewrite when BASE contains no '-'
C10_ExchangeEndingPlainBase ==
    LET t == C10_Normal(ticker)
        base == SubSeq(t, 1, Len(t) - 4)
    IN  (pc = "done" /\ ~HasChar(ticker, ".") /\ ~HasChar(base, "-")) =>
            /\ EndsWith(t, DashNSE) => formatted = base \o DotNS
            /\ EndsWith(t, DashBSE) => formatted = base \o DotBO

\* x is m rounded to 2 decimals: a whole number of cents within half a cent
IsRounded2(x, m) == x % 10 = 0 /\ Abs(x - m) <= RoundingEpsilon

PrevDayPrice(i) == IF i = 1 THEN pp.last_price ELSE pp.future_prices[i - 1]

\* C12: every projected price, the first included, is within 3% of the
\* previous day's price, which for the first projected day is the last
\* historical close: abs(prices[0] - lastClose) <= 0.03 * lastClose + epsilon.
C12_FirstWithin3PctOfLastClose ==
    \A i \in 1..Len(pp.future_prices) :
        100 * Abs(pp.future_prices[i] - PrevDayPrice(i))
            <= 3 * PrevDayPrice(i) + 100 * RoundingEpsilon

\* what holds of the code: the first projected price is the model's value
\* rounded, whatever the last close is
C12_FirstIsRawRounded ==
    Len(pp.future_prices) >= 1 =>
        \E raw \in RawValues : IsRounded2(pp.future_prices[1], raw)

\* the last close is above the filled average of window w
AboveSma(c, w) == QGt(<<c[Len(c)], 1>>, SmaFilled(c, w, Len(c)))

\* C13 as stated: none of the 8 combinations of (price > SMA20, price > SMA50,
\* price > SMA200) selects "Weak Downtrend" (-3), and at least one selects
\* the final "Sideways" (0).
C13_WeakDowntrendUnreachable ==
    /\ \A a, b, c \in BOOLEAN : BaseTrend(a, b, c).trend # "Weak Downtrend"
    /\ \E a, b, c \in BOOLEAN : BaseTrend(a, b, c).trend = "Sideways"
    /\ trend # NoTrend => trend.base # -3

\* C13 as amended: the chain selects "Weak Downtrend" (-3) exactly for the
\* two combinations with the price not above SMA20 and above SMA50, and none
\* of the 8 combinations selects the final "Sideways" (0).
C13_SidewaysUnreachable ==
    /\ \A a, b, c \in BOOLEAN :
         /\ BaseTrend(a, b, c).trend = "Weak Downtrend" <=> (~a /\ b)
         /\ BaseTrend(a, b, c).strength = -3 <=> (~a /\ b)
         /\ BaseTrend(a, b, c).trend # "Sideways"
         /\ BaseTrend(a, b, c).strength # 0
    /\ trend # NoTrend =>
         /\ trend.base = -3 <=>
                (~AboveSma(rdf, Sma20Window) /\ AboveSma(rdf, Sma50Window))
         /\ trend.base # 0

\* a series whose last close is not above SMA20 and above SMA50
C13_WeakDowntrendSelected ==
    /\ trend # NoTrend
    /\ ~AboveSma(rdf, Sma20Window) /\ AboveSma(rdf, Sma50Window)
    /\ trend.base = -3

\* the data source is deterministic in this behaviour: two history calls
\* for one symbol ended the same way
SameAnswerPerSymbol ==
    \A i, j \in 1..Len(HistoryCalls) :
        HistoryCalls[i].sym = HistoryCalls[j].sym => HistoryCalls[i].out = HistoryCalls[j].out

\* the recommendation of the answered analyze request is degraded for lack
\* of history
NoDataRecommendation ==
    /\ pc = "done" /\ req = "analyze" /\ response.kind = "analysis"
    /\ IsDegraded /\ rec.explanation.error = NoHistoryMsg

\* C14: with a deterministic data source, when get_stock_dataframe succeeded
\* for the ticker (possibly through the retry on the other exchange),
\* get_recommendation is not degraded for lack of data: no analyze response
\* pairs series data with a no-data recommendation.
C14_FallbackEverywhere ==
    (SameAnswerPerSymbol /\ data # NoData) => ~NoDataRecommendation

\* what holds of the code: no such pairing when get_stock_dataframe needed
\* no retry
C14_FirstFetchHadData ==
    (SameAnswerPerSymbol /\ data # NoData
        /\ Len(SelectSeq(HistoryCalls, LAMBDA x : x.by = "get_stock_dataframe")) = 1)
    => ~NoDataRecommendation

====
